---- MODULE Spec2Model ----
(***************************************************************************)
(* Conway's Game of Life on a fixed N x M grid: the class GameOfLife<N, M> *)
(* of src/main.cpp (update, setGrid, getGrid, evolveCell,                  *)
(* numberOfAliveNeighbours) and the driver main().                         *)
(***************************************************************************)
EXTENDS Integers, Sequences, FiniteSets, TLC

VARIABLES
    N,             \* template parameter N: number of rows
    M,             \* template parameter M: number of columns
    current_grid,  \* GameOfLife::current_grid
    future_grid,   \* GameOfLife::future_grid
    pattern,       \* the braces of the caller's Grid initializer: rows, cols, cells
    layout,        \* the caller's Grid object handed to setGrid, as the call left it
    last_op,       \* the public operation that completed last
    written,       \* the caller's write through getGrid(), when that completed last
    pc,            \* position of the caller: "idle", or inside update()
    loop_i,        \* update(): the loop variable i
    loop_j,        \* update(): the loop variable j
    twin_current,  \* current_grid of a second, independently constructed object
    twin_future,   \* future_grid of the second object
    main_pc,       \* main(): the statement to execute next ("none": another caller)
    main_i,        \* main(): the loop variable i
    displays,      \* main(): number of print_grid calls completed
    exit_code      \* main(): the value returned, -1 while main() has not returned

vars == <<N, M, current_grid, future_grid, pattern, layout, last_op, written,
          pc, loop_i, loop_j, twin_current, twin_future, main_pc, main_i,
          displays, exit_code>>

\* the second object, and the driver's own variables
twinVars == <<twin_current, twin_future>>
mainVars == <<main_pc, main_i, displays, exit_code>>

(***************************************************************************)
(* Bounds of the model.                                                    *)
(***************************************************************************)
MaxN == 3          \* rows of the exhaustively explored grids
MaxM == 3          \* columns of the exhaustively explored grids
MaxCells == 9      \* cells of a grid whose update() is explored from every content
MaxApiCells == 6   \* cells of a grid on which every sequence of calls is explored
MaxBig == 6        \* rows and columns of the grids seeded with a blinker or a block
MaxPairCells == 4  \* cells of a grid of which two objects are explored together

(***************************************************************************)
(* size_t: an unsigned integer type of SizeBits bits.  16 is the least     *)
(* width the language allows; the grids here are far smaller than 2^16, so *)
(* every wider size_t behaves the same.                                    *)
(***************************************************************************)
SizeBits == 16
SizeMod == 2 ^ SizeBits

ToSizeT(x) == x % SizeMod

(***************************************************************************)
(* Grids.  Grid = std::array<std::array<bool, M>, N>.                      *)
(***************************************************************************)
Rows(n) == 0 .. (n - 1)
Cols(m) == 0 .. (m - 1)

Grid(n, m) == [Rows(n) -> [Cols(m) -> BOOLEAN]]

\* a plausible slip: Grid g; without the braces leaves the bools indeterminate;
\* one outcome is that all of them read as true
EmptyGrid_uninitialized(n, m) == [r \in Rows(n) |-> [c \in Cols(m) |-> TRUE]]

\* Grid g{}: value initialization, every bool false
EmptyGrid(n, m) == [r \in Rows(n) |-> [c \in Cols(m) |-> FALSE]]

\* Grid g {{ {..}, {..} }}: aggregate initialization from `rows` braces of
\* `cols` values each; the elements without an initializer are false
AggregateInit(n, m, p) ==
    [r \in Rows(n) |-> [c \in Cols(m) |->
        IF r < p.rows /\ c < p.cols THEN p.cells[r][c] ELSE FALSE]]

NumberOfNeighbours == 8

NeighbourOffsets ==
    << <<-1, -1>>, <<-1, 0>>, <<-1, 1>>, <<0, -1>>,
       <<0, 1>>, <<1, -1>>, <<1, 0>>, <<1, 1>> >>

(***************************************************************************)
(* numberOfAliveNeighbours: the loop over NeighbourOffsets, from offset k  *)
(* on, with the running count alive_neighbours.  x and y are size_t: the   *)
(* int offset is converted to size_t and the sum wraps modulo 2^SizeBits.  *)
(***************************************************************************)
\* a plausible slip: the offsets kept in a type narrower than size_t, so that
\* -1 becomes 255 and the sum no longer wraps back to i - 1
NeighbourIndex_narrow(i, d) == ToSizeT(i + (d % 256))

\* size_t x = i + offset.first: the int is converted to size_t, the sum wraps
NeighbourIndex(i, d) == ToSizeT(i + ToSizeT(d))

\* if (x >= 0 && y >= 0 && x < N && y < M)
InRange(x, y, n, m) == x >= 0 /\ y >= 0 /\ x < n /\ y < m

\* the index pairs with which current_grid[x][y] is read for cell (i, j)
ReadIndices(n, m, i, j) ==
    {q \in {<<NeighbourIndex(i, NeighbourOffsets[k][1]),
              NeighbourIndex(j, NeighbourOffsets[k][2])>> :
                k \in 1 .. NumberOfNeighbours} :
        InRange(q[1], q[2], n, m)}

RECURSIVE CountFrom(_, _, _, _, _, _, _)
CountFrom(g, n, m, i, j, k, alive_neighbours) ==
    IF k > NumberOfNeighbours THEN alive_neighbours
    ELSE LET offset == NeighbourOffsets[k]
             x == NeighbourIndex(i, offset[1])
             y == NeighbourIndex(j, offset[2])
         IN  IF InRange(x, y, n, m)
             THEN CountFrom(g, n, m, i, j, k + 1,
                            IF g[x][y] THEN alive_neighbours + 1
                                       ELSE alive_neighbours)
             ELSE CountFrom(g, n, m, i, j, k + 1, alive_neighbours)

\* a plausible slip: the indices wrap around the grid instead of being dropped
numberOfAliveNeighbours_wrap(g, n, m, i, j) ==
    Cardinality({k \in 1 .. NumberOfNeighbours :
        g[(i + NeighbourOffsets[k][1]) % n][(j + NeighbourOffsets[k][2]) % m]})

\* a plausible slip: the loop stops one offset early and never looks at {1, 1}
numberOfAliveNeighbours_short(g, n, m, i, j) ==
    Cardinality({k \in 1 .. (NumberOfNeighbours - 1) :
        LET x == i + NeighbourOffsets[k][1]
            y == j + NeighbourOffsets[k][2]
        IN  x >= 0 /\ y >= 0 /\ x < n /\ y < m /\ g[x][y]})

numberOfAliveNeighbours(g, n, m, i, j) == CountFrom(g, n, m, i, j, 1, 0)

\* a plausible slip: a live cell survives on 2, 3 or 4 neighbours
evolveCell_survive4(g, n, m, i, j) ==
    LET current_state == g[i][j]
        neighbours == numberOfAliveNeighbours(g, n, m, i, j)
    IN  IF current_state
        THEN ~(neighbours < 2 \/ neighbours > 4)
        ELSE neighbours = 3

\* a plausible slip: a live cell survives on 2 neighbours only
evolveCell_survive2(g, n, m, i, j) ==
    LET current_state == g[i][j]
        neighbours == numberOfAliveNeighbours(g, n, m, i, j)
    IN  IF current_state
        THEN ~(neighbours < 2 \/ neighbours >= 3)
        ELSE neighbours = 3

\* a plausible slip: a dead cell comes alive on up to 3 neighbours
evolveCell_birthUpTo3(g, n, m, i, j) ==
    LET current_state == g[i][j]
        neighbours == numberOfAliveNeighbours(g, n, m, i, j)
    IN  IF current_state
        THEN ~(neighbours < 2 \/ neighbours > 3)
        ELSE neighbours <= 3

evolveCell(g, n, m, i, j) ==
    LET current_state == g[i][j]
        neighbours == numberOfAliveNeighbours(g, n, m, i, j)
    IN  IF current_state
        THEN ~(neighbours < 2 \/ neighbours > 3)
        ELSE neighbours = 3

(***************************************************************************)
(* update().  StoreCell is the assignment of the loop body,                *)
(* future_grid[i][j] = evolveCell(i, j); both grids are carried so that    *)
(* what the statement writes, and what it leaves alone, is explicit.       *)
(***************************************************************************)
\* a plausible slip: only the cells that come alive are written
StoreCell_onlyAlive(cur, fut, n, m, i, j) ==
    [current |-> cur,
     future  |-> IF evolveCell(cur, n, m, i, j)
                 THEN [fut EXCEPT ![i][j] = TRUE]
                 ELSE fut]

\* a plausible slip: the new state is written into current_grid as well
StoreCell_inplace(cur, fut, n, m, i, j) ==
    [current |-> [cur EXCEPT ![i][j] = evolveCell(cur, n, m, i, j)],
     future  |-> [fut EXCEPT ![i][j] = evolveCell(cur, n, m, i, j)]]

StoreCell(cur, fut, n, m, i, j) ==
    [current |-> cur,
     future  |-> [fut EXCEPT ![i][j] = evolveCell(cur, n, m, i, j)]]

\* the two nested loops, from the k-th cell in row-major order on
RECURSIVE UpdateLoop(_, _, _, _, _)
UpdateLoop(cur, fut, n, m, k) ==
    IF k >= n * m THEN [current |-> cur, future |-> fut]
    ELSE LET s == StoreCell(cur, fut, n, m, k \div m, k % m)
         IN  UpdateLoop(s.current, s.future, n, m, k + 1)

\* a plausible slip: the assignment the wrong way round
CommitGrid_reversed(cur, fut) == [current |-> cur, future |-> cur]

\* a plausible slip: the two grids are swapped instead of copied
CommitGrid_swap(cur, fut) == [current |-> fut, future |-> cur]

\* current_grid = future_grid;
CommitGrid(cur, fut) == [current |-> fut, future |-> fut]

update(cur, fut, n, m) ==
    LET s == UpdateLoop(cur, fut, n, m, 0)
    IN  CommitGrid(s.current, s.future)

(***************************************************************************)
(* setGrid(g): std::copy of the `count` contiguous bools that start at     *)
(* g[0][0] to the ones that start at current_grid[0][0]; element k of a    *)
(* Grid is the one at [k / M][k % M].  The record holds the source and the *)
(* destination after the call.                                             *)
(***************************************************************************)
CopyRange(src, dst, n, m, count) ==
    [g |-> src,
     current |-> [r \in Rows(n) |-> [c \in Cols(m) |->
                     IF r * m + c < count THEN src[r][c] ELSE dst[r][c]]]]

\* a plausible slip: the range ends one element early
setGrid_short(g, cur, n, m) == CopyRange(g, cur, n, m, n * m - 1)

\* a plausible slip: source and destination of the copy are exchanged
setGrid_reversed(g, cur, n, m) ==
    [g |-> CopyRange(cur, g, n, m, n * m).current, current |-> cur]

setGrid(g, cur, n, m) == CopyRange(g, cur, n, m, n * m)

\* getGrid(): a reference to current_grid
getGrid(cur) == cur

\* a plausible slip: getGrid() returns the grid by value, and the write is
\* made to the temporary copy
WriteThrough_byValue(cur, i, j, v) == cur

\* a plausible slip: the write fills the whole row
WriteThrough_row(cur, i, j, v) ==
    [getGrid(cur) EXCEPT ![i] = [c \in DOMAIN cur[i] |-> v]]

\* gol.getGrid()[i][j] = v;
WriteThrough(cur, i, j, v) == [getGrid(cur) EXCEPT ![i][j] = v]

\* no write through getGrid() is the last call
NoWrite == << >>

(***************************************************************************)
(* The callers' inputs.                                                    *)
(***************************************************************************)
\* Grid g{}: no initializer at all
NoPattern == [rows |-> 0, cols |-> 0, cells |-> << >>]

\* every initializer of at most n rows of at most m values
Patterns(n, m) ==
    {NoPattern} \cup
    UNION {UNION {{[rows |-> r, cols |-> c, cells |-> f] :
                      f \in [Rows(r) -> [Cols(c) -> BOOLEAN]]} :
                  c \in 1 .. m} : r \in 1 .. n}

\* the grid sizes whose update() is explored from every content
SmallDims ==
    {d \in (1 .. MaxN) \X (1 .. MaxM) : d[1] * d[2] <= MaxCells}

\* the grid sizes on which every sequence of calls is explored
ApiDims ==
    {d \in (1 .. MaxN) \X (1 .. MaxM) : d[1] * d[2] <= MaxApiCells}

(***************************************************************************)
(* State after construction: GOL gol; both grids value-initialized.        *)
(***************************************************************************)
Constructed(n, m) ==
    /\ N = n
    /\ M = m
    /\ current_grid = EmptyGrid(n, m)
    /\ future_grid = EmptyGrid(n, m)
    /\ twin_current = EmptyGrid(n, m)
    /\ twin_future = EmptyGrid(n, m)
    /\ pattern = NoPattern
    /\ layout = EmptyGrid(n, m)
    /\ last_op = "construct"
    /\ written = NoWrite
    /\ pc = "idle"
    /\ loop_i = 0
    /\ loop_j = 0
    /\ main_pc = "none"
    /\ main_i = 0
    /\ displays = 0
    /\ exit_code = -1

Init == \E d \in ApiDims : Constructed(d[1], d[2])

(***************************************************************************)
(* The public operations, each as one step of a caller that is idle.       *)
(***************************************************************************)
\* Grid g {{...}}; gol.setGrid(g);
SetGrid(p) ==
    /\ pc = "idle"
    /\ LET g == AggregateInit(N, M, p)
           s == setGrid(g, current_grid, N, M)
       IN  /\ current_grid' = s.current
           /\ layout' = s.g
    /\ pattern' = p
    /\ last_op' = "setGrid"
    /\ written' = NoWrite
    /\ UNCHANGED <<N, M, future_grid, pc, loop_i, loop_j>>

\* gol.update();
Update ==
    /\ pc = "idle"
    /\ LET s == update(current_grid, future_grid, N, M)
       IN  /\ current_grid' = s.current
           /\ future_grid' = s.future
    /\ pattern' = NoPattern
    /\ layout' = EmptyGrid(N, M)
    /\ last_op' = "update"
    /\ written' = NoWrite
    /\ UNCHANGED <<N, M, pc, loop_i, loop_j>>

\* gol.getGrid()[i][j] = v;
WriteCell(i, j, v) ==
    /\ pc = "idle"
    /\ current_grid' = WriteThrough(current_grid, i, j, v)
    /\ pattern' = NoPattern
    /\ layout' = EmptyGrid(N, M)
    /\ last_op' = "write"
    /\ written' = <<i, j, v>>
    /\ UNCHANGED <<N, M, future_grid, pc, loop_i, loop_j>>

\* a read of every cell of gol.getGrid(), as print_grid does
ReadGrid ==
    /\ pc = "idle"
    /\ current_grid' = getGrid(current_grid)
    /\ pattern' = NoPattern
    /\ layout' = EmptyGrid(N, M)
    /\ last_op' = "read"
    /\ written' = NoWrite
    /\ UNCHANGED <<N, M, future_grid, pc, loop_i, loop_j>>

Next ==
    \/ \E p \in Patterns(N, M) : SetGrid(p) /\ UNCHANGED <<twinVars, mainVars>>
    \/ Update /\ UNCHANGED <<twinVars, mainVars>>
    \/ \E i \in Rows(N), j \in Cols(M), v \in BOOLEAN :
           WriteCell(i, j, v) /\ UNCHANGED <<twinVars, mainVars>>
    \/ ReadGrid /\ UNCHANGED <<twinVars, mainVars>>

Spec == Init /\ [][Next]_vars

(***************************************************************************)
(* update() one statement at a time: entry, one step per execution of the  *)
(* loop body (with the increment of j, and of i at the end of a row), and  *)
(* the assignment after the loops.  No other call runs in between: the     *)
(* program is single-threaded.                                             *)
(***************************************************************************)
UpdateBegin ==
    /\ pc = "idle"
    /\ pc' = "update"
    /\ loop_i' = 0
    /\ loop_j' = 0
    /\ UNCHANGED <<N, M, current_grid, future_grid, pattern, layout, last_op,
                   written>>

UpdateCell ==
    /\ pc = "update"
    /\ loop_i < N
    /\ LET s == StoreCell(current_grid, future_grid, N, M, loop_i, loop_j)
       IN  /\ current_grid' = s.current
           /\ future_grid' = s.future
    /\ IF loop_j + 1 < M
       THEN /\ loop_j' = loop_j + 1
            /\ loop_i' = loop_i
       ELSE /\ loop_j' = 0
            /\ loop_i' = loop_i + 1
    /\ UNCHANGED <<N, M, pattern, layout, last_op, written, pc>>

UpdateCommit ==
    /\ pc = "update"
    /\ ~(loop_i < N)
    /\ LET s == CommitGrid(current_grid, future_grid)
       IN  /\ current_grid' = s.current
           /\ future_grid' = s.future
    /\ pc' = "idle"
    /\ loop_i' = 0
    /\ loop_j' = 0
    /\ pattern' = NoPattern
    /\ layout' = EmptyGrid(N, M)
    /\ last_op' = "update"
    /\ written' = NoWrite
    /\ UNCHANGED <<N, M>>

(***************************************************************************)
(* Seeds: an initializer that lists the rows and columns up to the last    *)
(* live cell of a set of cells.                                            *)
(***************************************************************************)
MaxOf(S) == CHOOSE x \in S : \A y \in S : y <= x

PatternOf(cells) ==
    LET rows == MaxOf({c[1] : c \in cells}) + 1
        cols == MaxOf({c[2] : c \in cells}) + 1
    IN  [rows |-> rows, cols |-> cols,
         cells |-> [r \in Rows(rows) |-> [c \in Cols(cols) |-> <<r, c>> \in cells]]]

FullPattern(n, m, g) == [rows |-> n, cols |-> m, cells |-> g]

HorizontalRun(r, c) == {<<r, c>>, <<r, c + 1>>, <<r, c + 2>>}
VerticalRun(r, c) == {<<r - 1, c + 1>>, <<r, c + 1>>, <<r + 1, c + 1>>}
BlockCells(r, c) == {<<r, c>>, <<r, c + 1>>, <<r + 1, c>>, <<r + 1, c + 1>>}

\* the positions at which the run, or the block, does not touch the boundary
BlinkerPositions(n, m) == (1 .. (n - 2)) \X (1 .. (m - 4))
BlockPositions(n, m) == (1 .. (n - 3)) \X (1 .. (m - 3))

BigDims == (5 .. MaxBig) \X (5 .. MaxBig)

BigSeeds(n, m) ==
    {PatternOf(HorizontalRun(q[1], q[2])) : q \in BlinkerPositions(n, m)} \cup
    {PatternOf(BlockCells(q[1], q[2])) : q \in BlockPositions(n, m)}

\* State after GOL gol; Grid g {{...}}; gol.setGrid(g);
Seeded(n, m, p) ==
    LET g == AggregateInit(n, m, p)
        s == setGrid(g, EmptyGrid(n, m), n, m)
    IN  /\ N = n
        /\ M = m
        /\ current_grid = s.current
        /\ future_grid = EmptyGrid(n, m)
        /\ twin_current = EmptyGrid(n, m)
        /\ twin_future = EmptyGrid(n, m)
        /\ pattern = p
        /\ layout = s.g
        /\ last_op = "setGrid"
        /\ written = NoWrite
        /\ pc = "idle"
        /\ loop_i = 0
        /\ loop_j = 0
        /\ main_pc = "none"
        /\ main_i = 0
        /\ displays = 0
        /\ exit_code = -1

InitCells ==
    \/ \E d \in SmallDims : \E g \in Grid(d[1], d[2]) :
           Seeded(d[1], d[2], FullPattern(d[1], d[2], g))
    \/ \E d \in BigDims : \E p \in BigSeeds(d[1], d[2]) :
           Seeded(d[1], d[2], p)

NextCells ==
    \/ UpdateBegin /\ UNCHANGED <<twinVars, mainVars>>
    \/ UpdateCell /\ UNCHANGED <<twinVars, mainVars>>
    \/ UpdateCommit /\ UNCHANGED <<twinVars, mainVars>>

SpecCells == InitCells /\ [][NextCells]_vars

(***************************************************************************)
(* main(): GOL = GameOfLife<10, 10>; the glider is seeded and printed,     *)
(* then 100 times: update(), print_grid, sleep.  update() runs one         *)
(* statement at a time, as above.                                          *)
(***************************************************************************)
MainRows == 10
MainCols == 10
Generations == 100

\* the braces of glider_layout
GliderLayout ==
    [rows |-> 4, cols |-> 3,
     cells |-> [r \in Rows(4) |-> [c \in Cols(3) |->
                   <<r, c>> \in {<<0, 1>>, <<1, 2>>, <<2, 0>>, <<2, 1>>, <<2, 2>>}]]]

InitMain ==
    /\ N = MainRows
    /\ M = MainCols
    /\ current_grid = EmptyGrid(MainRows, MainCols)
    /\ future_grid = EmptyGrid(MainRows, MainCols)
    /\ twin_current = EmptyGrid(MainRows, MainCols)
    /\ twin_future = EmptyGrid(MainRows, MainCols)
    /\ pattern = NoPattern
    /\ layout = EmptyGrid(MainRows, MainCols)
    /\ last_op = "construct"
    /\ written = NoWrite
    /\ pc = "idle"
    /\ loop_i = 0
    /\ loop_j = 0
    /\ main_pc = "seed"
    /\ main_i = 0
    /\ displays = 0
    /\ exit_code = -1

\* GOL::Grid glider_layout {{...}}; gol.setGrid(glider_layout);
MainSeed ==
    /\ main_pc = "seed"
    /\ SetGrid(GliderLayout)
    /\ main_pc' = "print_seed"
    /\ UNCHANGED <<main_i, displays, exit_code, twinVars>>

\* print_grid(gol); before the loop, then int i = 0
MainPrintSeed ==
    /\ main_pc = "print_seed"
    /\ ReadGrid
    /\ displays' = displays + 1
    /\ main_i' = 0
    /\ main_pc' = "test"
    /\ UNCHANGED <<exit_code, twinVars>>

\* a plausible slip: i <= 100
MainTest_inclusive ==
    /\ main_pc = "test"
    /\ main_pc' = IF main_i <= Generations THEN "update" ELSE "return"
    /\ UNCHANGED <<N, M, current_grid, future_grid, pattern, layout, last_op,
                   written, pc, loop_i, loop_j, main_i, displays, exit_code,
                   twinVars>>

\* i < 100
MainTest ==
    /\ main_pc = "test"
    /\ main_pc' = IF main_i < Generations THEN "update" ELSE "return"
    /\ UNCHANGED <<N, M, current_grid, future_grid, pattern, layout, last_op,
                   written, pc, loop_i, loop_j, main_i, displays, exit_code,
                   twinVars>>

\* gol.update();
MainUpdate ==
    /\ main_pc = "update"
    /\ \/ UpdateBegin /\ main_pc' = main_pc
       \/ UpdateCell /\ main_pc' = main_pc
       \/ UpdateCommit /\ main_pc' = "print"
    /\ UNCHANGED <<main_i, displays, exit_code, twinVars>>

\* print_grid(gol); in the loop
MainPrint ==
    /\ main_pc = "print"
    /\ ReadGrid
    /\ displays' = displays + 1
    /\ main_pc' = "sleep"
    /\ UNCHANGED <<main_i, exit_code, twinVars>>

\* std::this_thread::sleep_for(...); ++i
MainSleep ==
    /\ main_pc = "sleep"
    /\ main_i' = main_i + 1
    /\ main_pc' = "test"
    /\ UNCHANGED <<N, M, current_grid, future_grid, pattern, layout, last_op,
                   written, pc, loop_i, loop_j, displays, exit_code, twinVars>>

\* return 0;
MainReturn ==
    /\ main_pc = "return"
    /\ exit_code' = 0
    /\ main_pc' = "done"
    /\ UNCHANGED <<N, M, current_grid, future_grid, pattern, layout, last_op,
                   written, pc, loop_i, loop_j, main_i, displays, twinVars>>

NextMain ==
    \/ MainSeed
    \/ MainPrintSeed
    \/ MainTest
    \/ MainUpdate
    \/ MainPrint
    \/ MainSleep
    \/ MainReturn

SpecMain == InitMain /\ [][NextMain]_vars

\* main() is one sequential thread with no blocking call but a bounded
\* sleep: whenever it has a next statement, it executes it
SpecMainFair == SpecMain /\ WF_vars(NextMain)

(***************************************************************************)
(* A caller that constructs the object and only ever calls update(), on    *)
(* every grid size of the other specifications.                            *)
(***************************************************************************)
InitDead ==
    \E d \in SmallDims \cup BigDims \cup {<<MainRows, MainCols>>} :
        Constructed(d[1], d[2])

SpecDead == InitDead /\ [][NextCells]_vars

(***************************************************************************)
(* Two independently constructed objects of the same GameOfLife<N, M>.     *)
(* The first is driven through setGrid and update(), the second through    *)
(* writes via getGrid() and update(), so the two reach a grid by different *)
(* routes and with different scratch buffers; UpdateBoth calls update() on *)
(* each of them.                                                           *)
(***************************************************************************)
PairDims ==
    {d \in (1 .. MaxN) \X (1 .. MaxM) : d[1] * d[2] <= MaxPairCells}

InitPair == \E d \in PairDims : Constructed(d[1], d[2])

\* twin.getGrid()[i][j] = v;
TwinWrite(i, j, v) ==
    /\ pc = "idle"
    /\ twin_current' = WriteThrough(twin_current, i, j, v)
    /\ last_op' = "twin_write"
    /\ written' = NoWrite
    /\ pattern' = NoPattern
    /\ layout' = EmptyGrid(N, M)
    /\ UNCHANGED <<N, M, current_grid, future_grid, twin_future, pc, loop_i,
                   loop_j, mainVars>>

\* twin.update();
TwinUpdate ==
    /\ pc = "idle"
    /\ LET s == update(twin_current, twin_future, N, M)
       IN  /\ twin_current' = s.current
           /\ twin_future' = s.future
    /\ last_op' = "twin_update"
    /\ written' = NoWrite
    /\ pattern' = NoPattern
    /\ layout' = EmptyGrid(N, M)
    /\ UNCHANGED <<N, M, current_grid, future_grid, pc, loop_i, loop_j, mainVars>>

\* gol.update(); twin.update();
UpdateBoth ==
    /\ pc = "idle"
    /\ LET s == update(current_grid, future_grid, N, M)
           t == update(twin_current, twin_future, N, M)
       IN  /\ current_grid' = s.current
           /\ future_grid' = s.future
           /\ twin_current' = t.current
           /\ twin_future' = t.future
    /\ last_op' = "update_both"
    /\ written' = NoWrite
    /\ pattern' = NoPattern
    /\ layout' = EmptyGrid(N, M)
    /\ UNCHANGED <<N, M, pc, loop_i, loop_j, mainVars>>

NextPair ==
    \/ \E p \in Patterns(N, M) : SetGrid(p) /\ UNCHANGED <<twinVars, mainVars>>
    \/ Update /\ UNCHANGED <<twinVars, mainVars>>
    \/ \E i \in Rows(N), j \in Cols(M), v \in BOOLEAN : TwinWrite(i, j, v)
    \/ TwinUpdate
    \/ UpdateBoth

SpecPair == InitPair /\ [][NextPair]_vars

(***************************************************************************)
(* The reference Life step on a grid surrounded by dead cells, stated      *)
(* with sets and without machine arithmetic.                               *)
(***************************************************************************)
Moore == {d \in (-1 .. 1) \X (-1 .. 1) : d # <<0, 0>>}

InGrid(n, m, x, y) == x \in Rows(n) /\ y \in Cols(m)

LiveNeighbours(g, n, m, i, j) ==
    Cardinality({d \in Moore :
        InGrid(n, m, i + d[1], j + d[2]) /\ g[i + d[1]][j + d[2]]})

LifeRule(g, n, m, i, j) ==
    \/ g[i][j] /\ LiveNeighbours(g, n, m, i, j) \in {2, 3}
    \/ ~g[i][j] /\ LiveNeighbours(g, n, m, i, j) = 3

LifeStep(g, n, m) ==
    [r \in Rows(n) |-> [c \in Cols(m) |-> LifeRule(g, n, m, r, c)]]

\* the step that ends an update(): the assignment after the loops
CompletesUpdate == pc = "update" /\ pc' = "idle"

\* the number of cells update() has written so far
Written == loop_i * M + loop_j

(***************************************************************************)
(* C1: after one completed update() every cell is alive exactly when, in   *)
(* the grid as it was before the update, it was alive with 2 or 3 live     *)
(* neighbours or dead with exactly 3, the neighbours being the alive cells *)
(* among the in-grid positions of the 8 Moore offsets: update() is the     *)
(* reference Life step on a grid surrounded by dead cells.                 *)
(***************************************************************************)
C1_UpdateIsLifeStep ==
    [][CompletesUpdate =>
         \A r \in Rows(N), c \in Cols(M) :
             current_grid'[r][c] = LifeRule(current_grid, N, M, r, c)]_vars

C1_Witness ==
    /\ last_op = "update" /\ pc = "idle"
    /\ N = 3 /\ M = 3
    /\ current_grid[1][1] /\ current_grid[0][1] /\ ~current_grid[0][0]
    /\ ~current_grid[2][2]

(***************************************************************************)
(* C2: the grid does not wrap.  The count of a cell is the number of alive *)
(* cells among the Moore positions that lie inside the grid, so it never   *)
(* includes a cell of the opposite edge; the corner (0, 0) of a grid with  *)
(* at least 2 rows and 2 columns counts at most 3, and an edge cell that   *)
(* is no corner counts at most 5.                                          *)
(***************************************************************************)
IsCorner(n, m, i, j) == i \in {0, n - 1} /\ j \in {0, m - 1}
IsEdge(n, m, i, j) == i \in {0, n - 1} \/ j \in {0, m - 1}

C2_NoWrap ==
    \A r \in Rows(N), c \in Cols(M) :
        LET count == numberOfAliveNeighbours(current_grid, N, M, r, c)
        IN  /\ count = LiveNeighbours(current_grid, N, M, r, c)
            /\ (N >= 2 /\ M >= 2 /\ r = 0 /\ c = 0) => count <= 3
            /\ (IsEdge(N, M, r, c) /\ ~IsCorner(N, M, r, c)) => count <= 5

\* all nine cells alive: the corner has survived on its 3 in-grid neighbours
\* (it would have 8 on a torus), and the edge cell is counted with 5
C2_Witness ==
    /\ N = 3 /\ M = 3
    /\ current_grid = [r \in Rows(3) |-> [c \in Cols(3) |-> TRUE]]
    /\ pc = "update" /\ loop_i = 0 /\ loop_j = 1
    /\ future_grid[0][0]
    /\ numberOfAliveNeighbours(current_grid, N, M, 0, 0) = 3
    /\ numberOfAliveNeighbours(current_grid, N, M, 0, 1) = 5

(***************************************************************************)
(* C3: no partially computed generation is observable.  While update()     *)
(* runs, the current grid is not changed and every cell written so far to  *)
(* the scratch buffer is the next state computed from that unmodified      *)
(* grid; the current grid is replaced in the single step that ends the     *)
(* call, after all N * M cells have been written, by the complete next     *)
(* generation.                                                             *)
(***************************************************************************)
C3_NoPartialGeneration ==
    /\ [](pc = "update" =>
            \A k \in 0 .. (Written - 1) :
                future_grid[k \div M][k % M] =
                    LifeRule(current_grid, N, M, k \div M, k % M))
    /\ [][(pc' = "update") => current_grid' = current_grid]_vars
    /\ [][CompletesUpdate =>
            /\ Written = N * M
            /\ current_grid' = future_grid
            /\ current_grid' = LifeStep(current_grid, N, M)]_vars

\* in the middle of an update of a 3 x 3 grid: cell (0, 1) has been written
\* with a new state that differs from its current one, and its neighbour
\* (1, 1) is about to be computed
C3_Witness ==
    /\ N = 3 /\ M = 3
    /\ pc = "update" /\ loop_i = 1 /\ loop_j = 1
    /\ future_grid[0][1] # current_grid[0][1]
    /\ future_grid[2][2] # LifeRule(current_grid, N, M, 2, 2)

(***************************************************************************)
(* The extent of the initializer handed to the last setGrid call.          *)
(***************************************************************************)
Covered(r, c) == r < pattern.rows /\ c < pattern.cols

SmallerThanGrid == pattern.rows < N \/ pattern.cols < M

(***************************************************************************)
(* C4, as claimed: setGrid with a pattern smaller than the grid leaves     *)
(* every cell outside the pattern's extent with the value it had before    *)
(* the call.                                                               *)
(***************************************************************************)
C4_OutsideKeepsPriorState ==
    [][last_op' = "setGrid" =>
         \A r \in Rows(N), c \in Cols(M) :
             ~(r < pattern'.rows /\ c < pattern'.cols) =>
                 current_grid'[r][c] = current_grid[r][c]]_vars

(***************************************************************************)
(* C4, amended: setGrid takes a whole N x M Grid and copies all of it.  A  *)
(* pattern written with fewer rows or columns is a Grid whose other        *)
(* elements are false, so after setGrid the pattern's cells lie at row 0 / *)
(* column 0 and every cell outside the pattern's extent is dead, whatever  *)
(* it held before.                                                         *)
(***************************************************************************)
C4_OutsideIsCleared ==
    last_op = "setGrid" =>
        \A r \in Rows(N), c \in Cols(M) :
            /\ Covered(r, c) => current_grid[r][c] = pattern.cells[r][c]
            /\ ~Covered(r, c) => ~current_grid[r][c]

\* a cell outside the extent was alive after an earlier update() (the
\* scratch buffer still shows it) and is dead after setGrid
C4_Witness ==
    /\ last_op = "setGrid"
    /\ SmallerThanGrid
    /\ pattern.rows >= 1
    /\ \E r \in Rows(N), c \in Cols(M) :
           ~Covered(r, c) /\ future_grid[r][c] /\ ~current_grid[r][c]

(***************************************************************************)
(* C6: after setGrid(pattern) the grid returned by getGrid() holds         *)
(* pattern[i][j] at every position the pattern covers, whatever the grid   *)
(* held before and whatever calls came before, and the caller's Grid       *)
(* object is still the one its initializer built.                          *)
(***************************************************************************)
C6_SetGridRoundTrip ==
    last_op = "setGrid" =>
        /\ \A r \in Rows(N), c \in Cols(M) :
               Covered(r, c) => getGrid(current_grid)[r][c] = pattern.cells[r][c]
        /\ layout = AggregateInit(N, M, pattern)

\* the pattern sets one cell that was dead and clears one that was alive
\* after an earlier update()
C6_Witness ==
    /\ last_op = "setGrid"
    /\ \E a \in Rows(N) \X Cols(M), b \in Rows(N) \X Cols(M) :
           /\ Covered(a[1], a[2]) /\ Covered(b[1], b[2])
           /\ current_grid[a[1]][a[2]] /\ ~future_grid[a[1]][a[2]]
           /\ ~current_grid[b[1]][b[2]] /\ future_grid[b[1]][b[2]]
(***************************************************************************)
(* Grids given by their set of live cells.                                 *)
(***************************************************************************)
GridOf(n, m, cells) == [r \in Rows(n) |-> [c \in Cols(m) |-> <<r, c>> \in cells]]

(***************************************************************************)
(* C9: blinker.  On a grid of at least 5 x 5 whose only live cells are the *)
(* horizontal run (r, c), (r, c+1), (r, c+2), not touching the boundary,   *)
(* one update() yields exactly the vertical run (r-1, c+1), (r, c+1),      *)
(* (r+1, c+1), and the update() of that vertical run yields exactly the    *)
(* horizontal run again, for every such (r, c).                            *)
(***************************************************************************)
C9_Blinker ==
    [][CompletesUpdate =>
         \A q \in BlinkerPositions(N, M) :
             /\ current_grid = GridOf(N, M, HorizontalRun(q[1], q[2])) =>
                    current_grid' = GridOf(N, M, VerticalRun(q[1], q[2]))
             /\ current_grid = GridOf(N, M, VerticalRun(q[1], q[2])) =>
                    current_grid' = GridOf(N, M, HorizontalRun(q[1], q[2]))]_vars

\* the horizontal run is back after updates (the last call was an update)
C9_Witness ==
    /\ last_op = "update" /\ pc = "idle"
    /\ N >= 5 /\ M >= 5
    /\ \E q \in BlinkerPositions(N, M) :
           current_grid = GridOf(N, M, HorizontalRun(q[1], q[2]))

(***************************************************************************)
(* C10: block.  A grid whose only live cells are a 2 x 2 block that does   *)
(* not touch the boundary is unchanged by update(), for every position of  *)
(* the block; being a fixed point, it stays after any number of calls.     *)
(***************************************************************************)
C10_BlockIsStill ==
    [][CompletesUpdate =>
         \A q \in BlockPositions(N, M) :
             current_grid = GridOf(N, M, BlockCells(q[1], q[2])) =>
                 current_grid' = current_grid]_vars

C10_Witness ==
    /\ last_op = "update" /\ pc = "idle"
    /\ \E q \in BlockPositions(N, M) :
           /\ current_grid = GridOf(N, M, BlockCells(q[1], q[2]))
           /\ future_grid = current_grid
(***************************************************************************)
(* C8: glider.  In main(), on the 10 x 10 grid that is all dead except for *)
(* the glider seeded at the origin with setGrid, the grid after four calls *)
(* of update() is exactly the glider moved by (+1, +1): live cells at      *)
(* (1,2), (2,3), (3,1), (3,2), (3,3) and every other cell dead.            *)
(***************************************************************************)
\* update() calls completed by main() so far
UpdatesDone == IF main_pc \in {"print", "sleep"} THEN main_i + 1 ELSE main_i

GliderCells == {<<0, 1>>, <<1, 2>>, <<2, 0>>, <<2, 1>>, <<2, 2>>}

Shifted(cells, dr, dc) == {<<q[1] + dr, q[2] + dc>> : q \in cells}

C8_GliderTranslation ==
    /\ (main_pc \in {"print_seed", "test"} /\ UpdatesDone = 0) =>
           current_grid = GridOf(N, M, GliderCells)
    /\ (main_pc \in {"print", "sleep", "test"} /\ UpdatesDone = 4) =>
           /\ current_grid = GridOf(N, M, Shifted(GliderCells, 1, 1))
           /\ current_grid =
                  GridOf(N, M, {<<1, 2>>, <<2, 3>>, <<3, 1>>, <<3, 2>>, <<3, 3>>})

C8_Witness ==
    /\ N = 10 /\ M = 10
    /\ main_pc = "print" /\ main_i = 3 /\ last_op = "update"
    /\ current_grid[3][3] /\ ~current_grid[0][1]
(***************************************************************************)
(* C7: determinism.  Two independently constructed objects that hold the   *)
(* same current grid hold the same current grid again after update() has   *)
(* been called on each, and so after any further equal number of calls:    *)
(* the result depends on the current grid alone, not on the route by which *)
(* it was reached (setGrid, writes through getGrid(), earlier updates) nor *)
(* on what the scratch buffers hold.                                       *)
(***************************************************************************)
C7_Determinism ==
    [][(last_op' = "update_both" /\ current_grid = twin_current) =>
           /\ current_grid' = twin_current'
           /\ current_grid' = LifeStep(current_grid, N, M)]_vars

\* both objects were updated from equal grids; the result has live and
\* dead cells
C7_Witness ==
    /\ last_op = "update_both"
    /\ current_grid = twin_current
    /\ \E a \in Rows(N) \X Cols(M), b \in Rows(N) \X Cols(M) :
           current_grid[a[1]][a[2]] /\ ~current_grid[b[1]][b[2]]
(***************************************************************************)
(* C11: all-dead stability.  In a run that starts from the all-dead grid   *)
(* and only calls update(), every cell of the current grid is dead in      *)
(* every state, whatever the number of calls.                              *)
(***************************************************************************)
C11_AllDeadStays ==
    \A r \in Rows(N), c \in Cols(M) : ~current_grid[r][c]

\* an update() of an all-dead grid with interior cells has completed
C11_Witness ==
    /\ last_op = "update" /\ pc = "idle"
    /\ N >= 3 /\ M >= 3
    /\ \A r \in Rows(N), c \in Cols(M) : ~current_grid[r][c] /\ ~future_grid[r][c]
(***************************************************************************)
(* C12: a newly constructed object is idle with every cell of the grid     *)
(* returned by getGrid() dead; afterwards the current grid changes only in *)
(* a setGrid, an update() or a write through getGrid(), and a read through *)
(* getGrid() changes neither grid.                                         *)
(***************************************************************************)
C12_ConstructedDeadAndFrame ==
    /\ [](last_op = "construct" =>
            /\ pc = "idle"
            /\ \A r \in Rows(N), c \in Cols(M) : ~getGrid(current_grid)[r][c])
    /\ [][current_grid' # current_grid =>
            last_op' \in {"setGrid", "update", "write"}]_vars
    /\ [][last_op' = "read" =>
            current_grid' = current_grid /\ future_grid' = future_grid]_vars

\* a grid with live cells has been read
C12_Witness ==
    /\ last_op = "read"
    /\ \E r \in Rows(N), c \in Cols(M) : current_grid[r][c]
    /\ \E r \in Rows(N), c \in Cols(M) : current_grid[r][c] # future_grid[r][c]

(***************************************************************************)
(* C13: a write of one cell through the reference returned by getGrid()    *)
(* puts the written value in that cell whatever the rule would give,       *)
(* changes no other cell of the current grid and nothing of the scratch    *)
(* buffer, is seen by the next read, and the next update() computes the    *)
(* new generation from the grid that includes the write.                   *)
(***************************************************************************)
C13_WriteThroughGetGrid ==
    /\ [](last_op = "write" =>
            getGrid(current_grid)[written[1]][written[2]] = written[3])
    /\ [][last_op' = "write" =>
            /\ \A r \in Rows(N), c \in Cols(M) :
                   <<r, c>> # <<written'[1], written'[2]>> =>
                       current_grid'[r][c] = current_grid[r][c]
            /\ future_grid' = future_grid]_vars
    /\ [][(last_op = "write" /\ last_op' = "read") =>
            getGrid(current_grid')[written[1]][written[2]] = written[3]]_vars
    /\ [][(last_op = "write" /\ last_op' = "update") =>
            current_grid' =
                LifeStep([current_grid EXCEPT ![written[1]][written[2]] = written[3]],
                         N, M)]_vars

\* a cell has been written alive that update() had left dead, with no live
\* neighbour that could have given birth to it
C13_Witness ==
    /\ last_op = "write"
    /\ written[3]
    /\ current_grid[written[1]][written[2]]
    /\ LiveNeighbours(current_grid, N, M, written[1], written[2]) = 0
    /\ N * M >= 4

(***************************************************************************)
(* C17: scratch-buffer discipline.  Right after every completed update()   *)
(* the scratch buffer equals the current grid; setGrid and writes through  *)
(* getGrid() leave the scratch buffer alone; and the result of update() is *)
(* the Life step of the current grid whatever the scratch buffer held when *)
(* the call began.                                                         *)
(***************************************************************************)
C17_ScratchDiscipline ==
    /\ [](last_op = "update" => future_grid = current_grid)
    /\ [][last_op' \in {"setGrid", "write"} => future_grid' = future_grid]_vars
    /\ [][last_op' = "update" =>
            current_grid' = LifeStep(current_grid, N, M)]_vars

\* an update() has completed on a grid that is neither all dead nor all alive
C17_Witness ==
    /\ last_op = "update"
    /\ future_grid = current_grid
    /\ \E r \in Rows(N), c \in Cols(M) : current_grid[r][c]
    /\ \E r \in Rows(N), c \in Cols(M) : ~current_grid[r][c]
(***************************************************************************)
(* C14: the order of events in main().  A display happens only while no    *)
(* update() is running and directly after the setGrid of the seed (the     *)
(* first display) or directly after a completed update() (one display per  *)
(* update); update() completes once for each i = 0 .. 99; and main() ends  *)
(* having made 100 updates and 101 displays, returning 0.                  *)
(***************************************************************************)
C14_DriverOrder ==
    /\ [][displays' # displays =>
            /\ displays' = displays + 1
            /\ pc = "idle" /\ pc' = "idle"
            /\ \/ last_op = "setGrid" /\ displays = 0 /\ main_i = 0
               \/ last_op = "update" /\ displays = main_i + 1]_vars
    /\ [][CompletesUpdate =>
            /\ main_i < Generations
            /\ last_op = "read"
            /\ displays = main_i + 1]_vars
    /\ [][main_i' # main_i =>
            /\ main_i' = main_i + 1
            /\ last_op = "read"
            /\ displays = main_i + 2]_vars
    /\ [](exit_code # -1 <=> main_pc = "done")
    /\ [](main_pc = "done" =>
            /\ exit_code = 0
            /\ main_i = 100 /\ main_i = Generations
            /\ displays = 101)
    /\ <>(main_pc = "done")

C14_Witness ==
    /\ main_pc = "done"
    /\ exit_code = 0
    /\ displays = 101
    /\ main_i = 100
    /\ last_op = "read"

(***************************************************************************)
(* C15: in the run of main() the glider ends in the bottom-right corner:   *)
(* from generation 31 through generation 100 the live cells are exactly    *)
(* the block (8,8), (8,9), (9,8), (9,9), which touches the boundary and is *)
(* left unchanged by update(); and no generation of the run has more than  *)
(* 5 live cells.                                                           *)
(***************************************************************************)
LiveCells == {q \in Rows(N) \X Cols(M) : current_grid[q[1]][q[2]]}

CornerBlock == {<<8, 8>>, <<8, 9>>, <<9, 8>>, <<9, 9>>}

C15_GliderSettlesInCorner ==
    /\ (main_pc # "seed" /\ UpdatesDone >= 31) => LiveCells = CornerBlock
    /\ Cardinality(LiveCells) <= 5

\* the 100th update() has completed
C15_Witness ==
    /\ main_pc = "print" /\ main_i = 99 /\ last_op = "update"
    /\ UpdatesDone = 100
    /\ LiveCells = CornerBlock
(***************************************************************************)
(* C16: neighbour indices are computed in unsigned arithmetic: i plus the  *)
(* offset -1 is (i + 2^w - 1) mod 2^w, which is 2^w - 1 at i = 0, and no   *)
(* index is ever negative.  Even so, for every cell of the grid, 1-row and *)
(* 1-column grids included, the index pairs used to read the current grid  *)
(* during update() are all inside the grid, and they are exactly the       *)
(* in-grid cells among the 8 neighbours: none is skipped.                  *)
(***************************************************************************)
InGridNeighbours(n, m, i, j) ==
    {q \in Rows(n) \X Cols(m) :
        /\ q # <<i, j>>
        /\ q[1] - i \in -1 .. 1
        /\ q[2] - j \in -1 .. 1}

C16_UnsignedIndicesInRange ==
    /\ NeighbourIndex(0, -1) = SizeMod - 1
    /\ \A i \in Rows(N), j \in Cols(M) :
          /\ \A k \in 1 .. NumberOfNeighbours :
                LET x == NeighbourIndex(i, NeighbourOffsets[k][1])
                    y == NeighbourIndex(j, NeighbourOffsets[k][2])
                IN  /\ x >= 0 /\ y >= 0
                    /\ x = (i + SizeMod + NeighbourOffsets[k][1]) % SizeMod
                    /\ y = (j + SizeMod + NeighbourOffsets[k][2]) % SizeMod
          /\ \A q \in ReadIndices(N, M, i, j) :
                /\ 0 <= q[1] /\ q[1] < N
                /\ 0 <= q[2] /\ q[2] < M
          /\ ReadIndices(N, M, i, j) = InGridNeighbours(N, M, i, j)
          /\ numberOfAliveNeighbours(current_grid, N, M, i, j) =
                Cardinality({q \in ReadIndices(N, M, i, j) :
                                current_grid[q[1]][q[2]]})

\* update() is at the first cell of a 1-row grid, whose right neighbour is
\* alive and whose other seven neighbours are outside the grid
C16_Witness ==
    /\ N = 1 /\ M >= 2
    /\ pc = "update" /\ loop_i = 0 /\ loop_j = 0
    /\ current_grid[0][1]
    /\ ReadIndices(N, M, 0, 0) = {<<0, 1>>}
    /\ NeighbourIndex(loop_i, -1) = SizeMod - 1
====
